---- MODULE Spec2Model ----
(***************************************************************************)
(* Model of the haiku diary: the reading normaliser and counter            *)
(* (lib/reading.js) and the diary page (app/page.tsx) with its storage     *)
(* wrapper (lib/storage.ts).                                               *)
(*                                                                         *)
(* A JavaScript string is modelled as the sequence of its UTF-16 code      *)
(* units (numbers 0..65535); a regular expression without the u flag works *)
(* on code units, and so do the operators below.                           *)
(***************************************************************************)
EXTENDS Integers, Sequences, FiniteSets, TLC

VARIABLES
  \* lib/reading.js: the arguments of a call, the operation called, its outcome
  text, yomi, called, ret,
  \* app/page.tsx: the state of HomePage
  draft, entries, feedback, selectedDateKey, hasLoaded,
  \* the passive effect of [draft, hasLoaded] waits to run
  draftEffectPending,
  \* window.localStorage under DRAFT_KEY and ENTRIES_KEY
  storage,
  \* the day of the month in Tokyo and the ticks of the clock
  today, clock

readingVars == <<text, yomi, called, ret>>

pageVars ==
  <<draft, entries, feedback, selectedDateKey, hasLoaded, draftEffectPending,
    storage, today, clock>>

vars ==
  <<text, yomi, called, ret, draft, entries, feedback, selectedDateKey, hasLoaded,
    draftEffectPending, storage, today, clock>>

(***************************************************************************)
(* Bounds of the model.                                                    *)
(***************************************************************************)
\* longest input string, in code units
MaxLen == 2
\* the days the diary is used over
MaxDay == 2
\* the ticks of the clock: how many times "save today" can store an entry
MaxClock == 1

(***************************************************************************)
(* Program constants of lib/reading.js.                                    *)
(***************************************************************************)
\* 0x30a1
KATAKANA_START == 12449
\* 0x30f6
KATAKANA_END == 12534
\* 0x60
HIRAGANA_OFFSET == 96

(***************************************************************************)
(* The code units the inputs are drawn from: one or more of every class    *)
(* the three stages tell apart.                                            *)
(*   32 space, 12288 U+3000 ideographic space, 12289 U+3001 comma,         *)
(*   12539 U+30FB middle dot, 97 'a', 45 '-',                              *)
(*   12365 hiragana ki, 12461 katakana ki,                                 *)
(*   12419 12423 hiragana small ya yo, 12515 12519 katakana small ya yo,   *)
(*   12387 hiragana small tsu, 12449 katakana small a (U+30A1),            *)
(*   12534 katakana small ke (U+30F6), 12448 U+30A0, 12535 U+30F7,         *)
(*   12540 U+30FC long vowel mark, 65398 half-width katakana ka,           *)
(*   28450 a kanji, 55357 a high surrogate, 56832 a low surrogate.         *)
(***************************************************************************)
Alphabet ==
  { 32, 12288, 12289, 12539, 97, 45,
    12365, 12461,
    12419, 12423,
    12515, 12519,
    12387, 12449,
    12534, 12448, 12535,
    12540, 65398,
    28450, 55357, 56832 }

\* every string of at most MaxLen code units
Strings == UNION { [1..n -> Alphabet] : n \in 0..MaxLen }

(***************************************************************************)
(* JavaScript values: a string, or one of the values that are no string.   *)
(***************************************************************************)
Str(units) == [type |-> "string", units |-> units]

Null == [type |-> "null", units |-> <<>>]

Undefined == [type |-> "undefined", units |-> <<>>]

\* a number, standing for every value that is neither a string nor nullish
Num == [type |-> "number", units |-> <<>>]

IsString(value) == value.type = "string"

IsNullish(value) == value.type \in {"null", "undefined"}

Return(value) == [kind |-> "return", value |-> value]

Throw(error) == [kind |-> "throw", value |-> error]

(***************************************************************************)
(* Character classes of the regular expressions.                           *)
(***************************************************************************)
\* \s of ECMAScript: WhiteSpace and LineTerminator (U+3000 is among them)
IsWhiteSpace(c) ==
  \/ c \in {9, 10, 11, 12, 13, 32, 160, 5760, 8232, 8233, 8239, 8287, 12288, 65279}
  \/ (8192 <= c /\ c <= 8202)

\* [\s　]
IsSpaceClass(c) == IsWhiteSpace(c) \/ c = 12288

\* the enumerated punctuation class of stripPunctuation
PunctuationClass ==
  { 12289, 12290, 65294, 65292, 44, 46, 33, 65281, 63, 65311,
    12300, 12301, 12302, 12303, 65288, 65289, 40, 41,
    65339, 65341, 91, 93, 12304, 12305, 12539,
    58, 59, 65306, 65307, 8230, 8229 }

\* [ゃゅょャュョ]
SmallKanaClass == {12419, 12421, 12423, 12515, 12517, 12519}

RECURSIVE RemoveFirst(_, _)
\* String.prototype.replace(/[class]/, ''): without the g flag only the first
\* match goes
RemoveFirst(units, class) ==
  IF units = <<>> THEN <<>>
  ELSE IF Head(units) \in class THEN Tail(units)
  ELSE <<Head(units)>> \o RemoveFirst(Tail(units), class)

(***************************************************************************)
(* lib/reading.js                                                          *)
(***************************************************************************)
\* a fold whose range stops one short of KATAKANA_END
toHiraganaShortRange(units) ==
  [i \in 1..Len(units) |->
     IF KATAKANA_START <= units[i] /\ units[i] < KATAKANA_END
     THEN (units[i] - HIRAGANA_OFFSET) % 65536
     ELSE units[i]]

\* a fold over the whole katakana block, U+30A0 to U+30FF
toHiraganaWholeBlock(units) ==
  [i \in 1..Len(units) |->
     IF 12448 <= units[i] /\ units[i] <= 12543
     THEN (units[i] - HIRAGANA_OFFSET) % 65536
     ELSE units[i]]

toHiragana(units) ==
  [i \in 1..Len(units) |->
     IF KATAKANA_START <= units[i] /\ units[i] <= KATAKANA_END
     THEN (units[i] - HIRAGANA_OFFSET) % 65536
     ELSE units[i]]

\* both replacements without the g flag
stripPunctuationFirstOnly(units) ==
  RemoveFirst(RemoveFirst(units, {c \in Alphabet : IsSpaceClass(c)}), PunctuationClass)

\* the whitespace replacement forgotten
stripPunctuationNoWhitespace(units) ==
  SelectSeq(units, LAMBDA c : c \notin PunctuationClass)

\* a class widened to ASCII '-' and '#', as a general "is punctuation" test has it
stripPunctuationWithHyphen(units) ==
  SelectSeq(SelectSeq(units, LAMBDA c : ~IsSpaceClass(c)),
            LAMBDA c : c \notin (PunctuationClass \cup {45, 35}))

\* the matches replaced by a space instead of by nothing
stripPunctuationToSpace(units) ==
  [i \in 1..Len(units) |->
     IF IsSpaceClass(units[i]) \/ units[i] \in PunctuationClass THEN 32 ELSE units[i]]

stripPunctuation(units) ==
  SelectSeq(SelectSeq(units, LAMBDA c : ~IsSpaceClass(c)),
            LAMBDA c : c \notin PunctuationClass)

\* small tsu taken for one of the elided glyphs
stripSmallKanaWithTsu(units) ==
  SelectSeq(units, LAMBDA c : c \notin (SmallKanaClass \cup {12387, 12483}))

\* a class of the hiragana glyphs alone: [ゃゅょ]
stripSmallKanaHiraganaOnly(units) ==
  SelectSeq(units, LAMBDA c : c \notin {12419, 12421, 12423})

stripSmallKana(units) == SelectSeq(units, LAMBDA c : c \notin SmallKanaClass)

\* normalizeReading on the code units of a string
normalizeReading(units) == stripSmallKana(stripPunctuation(toHiragana(units)))

\* a call of normalizeReading with any value: value.replace is a TypeError
\* when value is no string
normalizeReadingCall(value) ==
  IF IsString(value)
  THEN Return(Str(normalizeReading(value.units)))
  ELSE Throw("TypeError")

RECURSIVE TrimStart(_)
TrimStart(units) ==
  IF units = <<>> THEN <<>>
  ELSE IF IsWhiteSpace(Head(units)) THEN TrimStart(Tail(units))
  ELSE units

RECURSIVE TrimEnd(_)
TrimEnd(units) ==
  IF units = <<>> THEN <<>>
  ELSE IF IsWhiteSpace(units[Len(units)]) THEN TrimEnd(SubSeq(units, 1, Len(units) - 1))
  ELSE units

\* String.prototype.trim
trim(units) == TrimEnd(TrimStart(units))

\* the test without the trim
hasYomiUntrimmed(value) == IsString(value) /\ Len(value.units) > 0

\* typeof yomi === 'string' && yomi.trim().length > 0
hasYomi(value) == IsString(value) /\ Len(trim(value.units)) > 0

\* the text taken whatever the reading is
rawAlwaysText(t, y) == t

\* hasYomi ? yomi : text
raw(t, y) == IF hasYomi(y) THEN y ELSE t

\* the value passed on as it is
coalesceNothing(value) == value

\* raw ?? ''
coalesce(value) == IF IsNullish(value) THEN Str(<<>>) ELSE value

IsHighSurrogate(c) == 55296 <= c /\ c <= 56319

IsLowSurrogate(c) == 56320 <= c /\ c <= 57343

\* normalized.length: code units
codeUnitLength(units) == Len(units)

RECURSIVE ArrayFromLength(_)
\* Array.from(normalized).length: the string iterator yields a high surrogate
\* followed by a low surrogate as one element, every other code unit alone
ArrayFromLength(units) ==
  IF units = <<>> THEN 0
  ELSE IF /\ Len(units) >= 2
          /\ IsHighSurrogate(units[1])
          /\ IsLowSurrogate(units[2])
       THEN 1 + ArrayFromLength(SubSeq(units, 3, Len(units)))
       ELSE 1 + ArrayFromLength(Tail(units))

countReadingChars(t, y) ==
  LET source == IF hasYomi(y) THEN "yomi" ELSE "text"
      normalized == normalizeReadingCall(coalesce(raw(t, y)))
  IN IF normalized.kind = "throw"
     THEN normalized
     ELSE Return([count |-> ArrayFromLength(normalized.value.units),
                  normalized |-> normalized.value,
                  source |-> source])

(***************************************************************************)
(* The arguments the calls of lib/reading.js are made with.                *)
(***************************************************************************)
\* the values that stand on the other side of the string under test
OtherValues == {Str(<<>>), Str(<<12288>>), Str(<<28450>>), Null, Undefined, Num}

NoResult == [kind |-> "none", value |-> <<>>]

(***************************************************************************)
(* lib/haiku.ts                                                            *)
(***************************************************************************)
\* String(value).padStart(2, '0') for 0 <= value <= 99, as code units
pad2(value) ==
  IF value < 10 THEN <<48, 48 + value>>
  ELSE <<48 + (value \div 10), 48 + (value % 10)>>

\* getTokyoDateKey on day `day` of January 2024: "2024-01-dd"
getTokyoDateKey(day) == Str(<<50, 48, 50, 52, 45>> \o pad2(1) \o <<45>> \o pad2(day))

IsDigit(c) == 48 <= c /\ c <= 57

\* /^\d{4}-\d{2}-\d{2}$/.test(value)
isValidDateKey(value) ==
  /\ Len(value.units) = 10
  /\ \A i \in 1..10 :
       IF i \in {5, 8} THEN value.units[i] = 45 ELSE IsDigit(value.units[i])

createEmptyDraft == [kami5 |-> Str(<<>>), naka7 |-> Str(<<>>), shimo5 |-> Str(<<>>)]

(***************************************************************************)
(* Time.  The clock counts ticks; a timestamp string is the tick written   *)
(* with two digits, which stands for the ISO string of toISOString().      *)
(***************************************************************************)
\* new Date().toISOString()
toISOString(tick) == Str(pad2(tick))

\* Number.isNaN(Date.parse(value)) for a string value
DateParseIsNaN(value) ==
  ~(Len(value.units) = 2 /\ \A i \in 1..2 : IsDigit(value.units[i]))

RECURSIVE LexLess(_, _)
\* a.localeCompare(b) < 0 on strings of digits: the order of the code units
LexLess(a, b) ==
  IF b = <<>> THEN FALSE
  ELSE IF a = <<>> THEN TRUE
  ELSE IF Head(a) # Head(b) THEN Head(a) < Head(b)
  ELSE LexLess(Tail(a), Tail(b))

(***************************************************************************)
(* lib/storage.ts (the version whose keys the page's README names).        *)
(* localStorage holds, under each key, nothing or the JSON text of a       *)
(* value; JSON.stringify followed by JSON.parse gives back the records and *)
(* strings of a draft or of a list of entries.                             *)
(***************************************************************************)
AbsentDraft == [present |-> FALSE, json |-> createEmptyDraft]

AbsentEntries == [present |-> FALSE, json |-> <<>>]

Stored(value) == [present |-> TRUE, json |-> value]

\* loadDraft().value: the stored fields laid over an empty draft
loadDraft(store) ==
  IF ~store.draft.present THEN createEmptyDraft
  ELSE [kami5 |-> store.draft.json.kami5,
        naka7 |-> store.draft.json.naka7,
        shimo5 |-> store.draft.json.shimo5]

\* loadEntries().value
loadEntries(store) == IF ~store.entries.present THEN <<>> ELSE store.entries.json

\* saveDraft: setItem may throw (quota), and then nothing is written
saveDraft(store, value, writes) ==
  IF writes THEN [store EXCEPT !.draft = Stored(value)] ELSE store

\* clearDraft: removeItem
clearDraft(store) == [store EXCEPT !.draft = AbsentDraft]

\* saveEntries: setItem may throw (quota), and then nothing is written
saveEntries(store, value, writes) ==
  IF writes THEN [store EXCEPT !.entries = Stored(value)] ELSE store

(***************************************************************************)
(* app/page.tsx                                                            *)
(***************************************************************************)
\* 1024 * 1024
MaxImportBytes == 1048576

\* feedback: null, or the type of the message shown ("success", "error")
NoFeedback == "none"

Feedback(type, message) == type

\* selectedDateKey when no date is selected
NoDate == Null

RECURSIVE InsertByUpdatedAt(_, _)
\* e put before the first entry that is not newer than e
InsertByUpdatedAt(e, sorted) ==
  IF sorted = <<>> THEN <<e>>
  ELSE IF LexLess(e.updatedAt.units, Head(sorted).updatedAt.units)
       THEN <<Head(sorted)>> \o InsertByUpdatedAt(e, Tail(sorted))
       ELSE <<e>> \o sorted

RECURSIVE sortedEntries(_)
\* [...entries].sort((a, b) => b.updatedAt.localeCompare(a.updatedAt)): newest
\* first, entries of the same updatedAt in their order
sortedEntries(list) ==
  IF list = <<>> THEN <<>>
  ELSE InsertByUpdatedAt(Head(list), sortedEntries(Tail(list)))

\* whether entriesByDate has the key
hasEntryOn(list, dateKey) == \E i \in 1..Len(list) : list[i].dateKey = dateKey

\* entriesByDate[dateKey]: the reduce keeps the last entry of sortedEntries
\* that has the key
entryOn(list, dateKey) ==
  LET sorted == sortedEntries(list)
      last == CHOOSE i \in 1..Len(sorted) :
                /\ sorted[i].dateKey = dateKey
                /\ \A j \in (i + 1)..Len(sorted) : sorted[j].dateKey # dateKey
  IN sorted[last]

RECURSIVE validateItemsSkipBad(_)
\* a loop that leaves a refused entry out and goes on with the next
validateItemsSkipBad(items) ==
  IF items = <<>> THEN [ok |-> TRUE, entries |-> <<>>, error |-> "none"]
  ELSE
    LET item == Head(items)
        rest == validateItemsSkipBad(Tail(items))
    IN IF \/ item.kind # "object"
          \/ ~IsString(item.dateKey) \/ ~isValidDateKey(item.dateKey)
          \/ ~IsString(item.kami5) \/ ~IsString(item.naka7) \/ ~IsString(item.shimo5)
          \/ ~IsString(item.createdAt) \/ ~IsString(item.updatedAt)
          \/ DateParseIsNaN(item.createdAt) \/ DateParseIsNaN(item.updatedAt)
       THEN rest
       ELSE [ok |-> TRUE,
             entries |-> <<[dateKey |-> item.dateKey, kami5 |-> item.kami5,
                            naka7 |-> item.naka7, shimo5 |-> item.shimo5,
                            createdAt |-> item.createdAt,
                            updatedAt |-> item.updatedAt]>> \o rest.entries,
             error |-> "none"]

RECURSIVE validateItems(_)
\* the loop of validateImport over the entries: the validated entries, or the
\* error of the first entry that is refused
validateItems(items) ==
  IF items = <<>> THEN [ok |-> TRUE, entries |-> <<>>, error |-> "none"]
  ELSE
    LET item == Head(items)
    IN IF item.kind # "object"
       THEN [ok |-> FALSE, entries |-> <<>>, error |-> "bad format"]
       ELSE IF \/ ~IsString(item.dateKey)
               \/ ~isValidDateKey(item.dateKey)
               \/ ~IsString(item.kami5)
               \/ ~IsString(item.naka7)
               \/ ~IsString(item.shimo5)
               \/ ~IsString(item.createdAt)
               \/ ~IsString(item.updatedAt)
       THEN [ok |-> FALSE, entries |-> <<>>, error |-> "bad format"]
       ELSE IF DateParseIsNaN(item.createdAt) \/ DateParseIsNaN(item.updatedAt)
       THEN [ok |-> FALSE, entries |-> <<>>, error |-> "bad date"]
       ELSE
         LET rest == validateItems(Tail(items))
             entry == [dateKey |-> item.dateKey, kami5 |-> item.kami5,
                       naka7 |-> item.naka7, shimo5 |-> item.shimo5,
                       createdAt |-> item.createdAt, updatedAt |-> item.updatedAt]
         IN IF rest.ok
            THEN [ok |-> TRUE, entries |-> <<entry>> \o rest.entries, error |-> "none"]
            ELSE rest

\* validateImport(payload)
validateImport(payload) ==
  IF payload.kind # "object"
  THEN [ok |-> FALSE, entries |-> <<>>, error |-> "bad content"]
  ELSE IF payload.entries.kind # "array"
  THEN [ok |-> FALSE, entries |-> <<>>, error |-> "no entries"]
  ELSE validateItems(payload.entries.items)

(***************************************************************************)
(* What the user types and the files the user picks.                       *)
(***************************************************************************)
\* the values of a line of the draft: empty, or one kana
LineValues == {<<>>, <<12354>>}

\* the lines of the draft the user types into
DraftFields == {"kami5", "naka7"}

\* an entry of a backup file, of day `day`, first line `line`, written at `tick`
Item(day, line, tick) ==
  [kind |-> "object", dateKey |-> getTokyoDateKey(day), kami5 |-> Str(line),
   naka7 |-> Str(<<>>), shimo5 |-> Str(<<>>),
   createdAt |-> toISOString(tick), updatedAt |-> toISOString(tick)]

\* an array element that is no object
NoObject ==
  [kind |-> "null", dateKey |-> Undefined, kami5 |-> Undefined, naka7 |-> Undefined,
   shimo5 |-> Undefined, createdAt |-> Undefined, updatedAt |-> Undefined]

Payload(items) == [kind |-> "object", entries |-> [kind |-> "array", items |-> items]]

File(size, parses, payload) == [size |-> size, parses |-> parses, payload |-> payload]

ImportFiles ==
  { \* larger than the limit
    File(MaxImportBytes + 1, TRUE, Payload(<<Item(1, <<12354>>, 0)>>)),
    \* no JSON
    File(10, FALSE, Payload(<<>>)),
    \* JSON that is no object
    File(10, TRUE, [kind |-> "number", entries |-> [kind |-> "missing", items |-> <<>>]]),
    \* an object without entries
    File(10, TRUE, [kind |-> "object", entries |-> [kind |-> "missing", items |-> <<>>]]),
    \* an element that is no object, after a good one
    File(10, TRUE, Payload(<<Item(1, <<12354>>, 0), NoObject>>)),
    \* a dateKey of the wrong shape: "2024-1-1"
    File(10, TRUE, Payload(<<[Item(1, <<12354>>, 0) EXCEPT
                               !.dateKey = Str(<<50, 48, 50, 52, 45, 49, 45, 49>>)]>>)),
    \* a line that is no string
    File(10, TRUE, Payload(<<[Item(1, <<12354>>, 0) EXCEPT !.naka7 = Num]>>)),
    \* a timestamp Date.parse does not read
    File(10, TRUE, Payload(<<[Item(1, <<12354>>, 0) EXCEPT !.updatedAt = Str(<<97>>)]>>)),
    \* good backups: no entry, one entry, two days, one day twice
    File(10, TRUE, Payload(<<>>)),
    File(10, TRUE, Payload(<<Item(2, <<12354>>, 0)>>)),
    File(10, TRUE, Payload(<<Item(2, <<12354>>, 1), Item(1, <<12354>>, 0)>>)),
    File(10, TRUE, Payload(<<Item(1, <<12354>>, 1), Item(1, <<>>, 0)>>)) }

(***************************************************************************)
(* The page before its effects have run.                                   *)
(***************************************************************************)
PageFresh ==
  /\ draft = createEmptyDraft
  /\ entries = <<>>
  /\ feedback = NoFeedback
  /\ selectedDateKey = NoDate
  /\ hasLoaded = FALSE
  /\ draftEffectPending = FALSE
  /\ today = 1
  /\ clock = 0

\* what an earlier visit can have left in localStorage: values the page itself
\* wrote (text that JSON.parse refuses is not among them)
StoredBefore ==
  { [draft |-> d, entries |-> e] :
      d \in {AbsentDraft, Stored([createEmptyDraft EXCEPT !.kami5 = Str(<<12354>>)])},
      e \in {AbsentEntries, Stored(validateItems(<<Item(1, <<12354>>, 0)>>).entries)} }

ReadingIdle ==
  /\ text = Str(<<>>)
  /\ yomi = Str(<<>>)
  /\ called = "nothing"
  /\ ret = NoResult

Init ==
  /\ ReadingIdle
  /\ PageFresh
  /\ storage \in StoredBefore

\* the effects of the first render: the load effect, then the effect of
\* [draft, hasLoaded], which returns at once since its hasLoaded is still false;
\* the state set here makes that effect run again after the next render
\* the draft effect written without its hasLoaded guard
draftEffectBodyUnguarded(store, d, loaded, writes) == saveDraft(store, d, writes)

\* the body of the draft effect: if (!hasLoaded) return; saveDraft(draft)
draftEffectBody(store, d, loaded, writes) ==
  IF ~loaded THEN store ELSE saveDraft(store, d, writes)

\* the effects of the first render, in order: the load effect reads the
\* storage and queues the state updates, then the draft effect runs with the
\* values of that render (the empty draft, hasLoaded false)
Mount ==
  /\ UNCHANGED readingVars
  /\ ~hasLoaded
  /\ draft' = loadDraft(storage)
  /\ entries' = loadEntries(storage)
  /\ hasLoaded' = TRUE
  /\ draftEffectPending' = TRUE
  /\ \E writes \in BOOLEAN :
       storage' = draftEffectBody(storage, createEmptyDraft, hasLoaded, writes)
  /\ UNCHANGED <<feedback, selectedDateKey, today, clock>>

\* useEffect(..., [draft, hasLoaded]): saveDraft(draft)
DraftEffect ==
  /\ UNCHANGED readingVars
  /\ draftEffectPending
  /\ draftEffectPending' = FALSE
  /\ IF ~hasLoaded
     THEN /\ storage' = draftEffectBody(storage, draft, hasLoaded, FALSE)
          /\ UNCHANGED feedback
     ELSE \E writes \in BOOLEAN :
            /\ storage' = draftEffectBody(storage, draft, hasLoaded, writes)
            /\ feedback' = IF writes THEN feedback
                           ELSE Feedback("error", "draft not saved")
  /\ UNCHANGED <<draft, entries, selectedDateKey, hasLoaded, today, clock>>

\* an event is handled once the effects of the last render have run
Ready == hasLoaded /\ ~draftEffectPending

\* handleDraftChange(field): the user changes a line
HandleDraftChange ==
  /\ UNCHANGED readingVars
  /\ Ready
  /\ \E field \in DraftFields, value \in LineValues :
       /\ draft[field] # Str(value)
       /\ draft' = [draft EXCEPT ![field] = Str(value)]
  /\ draftEffectPending' = TRUE
  /\ UNCHANGED <<entries, feedback, selectedDateKey, hasLoaded, storage, today, clock>>

IsBlankDraft(d) ==
  /\ Len(trim(d.kami5.units)) = 0
  /\ Len(trim(d.naka7.units)) = 0
  /\ Len(trim(d.shimo5.units)) = 0

\* the entry handleSaveToday builds
savedEntry(list, d, todayKey, now) ==
  IF hasEntryOn(list, todayKey)
  THEN [entryOn(list, todayKey) EXCEPT
          !.kami5 = d.kami5, !.naka7 = d.naka7, !.shimo5 = d.shimo5, !.updatedAt = now]
  ELSE [dateKey |-> todayKey, kami5 |-> d.kami5, naka7 |-> d.naka7,
        shimo5 |-> d.shimo5, createdAt |-> now, updatedAt |-> now]

\* nextEntries of handleSaveToday
nextEntries(list, d, todayKey, now) ==
  LET entry == savedEntry(list, d, todayKey, now)
  IN IF hasEntryOn(list, todayKey)
     THEN [i \in 1..Len(list) |-> IF list[i].dateKey = todayKey THEN entry ELSE list[i]]
     ELSE <<entry>> \o list

\* handleSaveToday; todayKey is the key of the current day (the render that
\* made the handler is taken to be of the same day) and every save is given a
\* later tick of the clock
HandleSaveToday ==
  /\ UNCHANGED readingVars
  /\ Ready
  /\ LET todayKey == getTokyoDateKey(today)
         now == toISOString(clock)
     IN IF IsBlankDraft(draft)
        THEN /\ feedback' = Feedback("error", "no haiku yet")
             /\ UNCHANGED <<entries, selectedDateKey, storage, clock>>
        ELSE \E confirmed \in IF hasEntryOn(entries, todayKey) THEN BOOLEAN ELSE {TRUE} :
               IF ~confirmed
               THEN UNCHANGED <<entries, feedback, selectedDateKey, storage, clock>>
               ELSE \E writes \in BOOLEAN :
                      /\ clock < MaxClock
                      /\ clock' = clock + 1
                      /\ entries' = nextEntries(entries, draft, todayKey, now)
                      /\ storage' = saveEntries(storage, entries', writes)
                      /\ IF writes
                         THEN /\ selectedDateKey' = todayKey
                              /\ feedback' = Feedback("success", "saved")
                         ELSE /\ selectedDateKey' = selectedDateKey
                              /\ feedback' = Feedback("error", "entries not saved")
  /\ UNCHANGED <<draft, hasLoaded, draftEffectPending, today>>

\* handleClear
HandleClear ==
  /\ UNCHANGED readingVars
  /\ Ready
  /\ \E confirmed \in BOOLEAN :
       IF ~confirmed
       THEN UNCHANGED <<draft, draftEffectPending, storage, feedback>>
       ELSE /\ draft' = createEmptyDraft
            /\ draftEffectPending' = TRUE
            /\ storage' = clearDraft(storage)
            /\ feedback' = Feedback("success", "draft cleared")
  /\ UNCHANGED <<entries, selectedDateKey, hasLoaded, today, clock>>

\* handleImport
HandleImport ==
  /\ UNCHANGED readingVars
  /\ Ready
  /\ \E file \in ImportFiles :
       IF file.size > MaxImportBytes
       THEN /\ feedback' = Feedback("error", "file too large")
            /\ UNCHANGED <<entries, selectedDateKey, storage>>
       ELSE \E confirmed \in BOOLEAN :
         IF ~confirmed
         THEN UNCHANGED <<entries, feedback, selectedDateKey, storage>>
         ELSE IF ~file.parses
         THEN /\ feedback' = Feedback("error", "import failed")
              /\ UNCHANGED <<entries, selectedDateKey, storage>>
         ELSE
           LET validation == validateImport(file.payload)
           IN IF ~validation.ok
              THEN /\ feedback' = Feedback("error", validation.error)
                   /\ UNCHANGED <<entries, selectedDateKey, storage>>
              ELSE \E writes \in BOOLEAN :
                     /\ entries' = validation.entries
                     /\ storage' = saveEntries(storage, validation.entries, writes)
                     /\ IF writes
                        THEN /\ selectedDateKey' =
                                  IF validation.entries = <<>> THEN NoDate
                                  ELSE validation.entries[1].dateKey
                             /\ feedback' = Feedback("success", "imported")
                        ELSE /\ selectedDateKey' = selectedDateKey
                             /\ feedback' = Feedback("error", "entries not saved")
  /\ UNCHANGED <<draft, hasLoaded, draftEffectPending, today, clock>>

\* the timer of the feedback effect: setFeedback(null) after 2800 ms
FeedbackTimeout ==
  /\ UNCHANGED readingVars
  /\ feedback # NoFeedback
  /\ feedback' = NoFeedback
  /\ UNCHANGED <<draft, entries, selectedDateKey, hasLoaded, draftEffectPending,
                 storage, today, clock>>

\* midnight in Tokyo
DayPasses ==
  /\ UNCHANGED readingVars
  /\ today < MaxDay
  /\ today' = today + 1
  /\ UNCHANGED <<draft, entries, feedback, selectedDateKey, hasLoaded,
                 draftEffectPending, storage, clock>>

Next ==
  \/ Mount
  \/ DraftEffect
  \/ HandleDraftChange
  \/ HandleSaveToday
  \/ HandleClear
  \/ HandleImport
  \/ FeedbackTimeout
  \/ DayPasses

Spec == Init /\ [][Next]_vars

\* React runs a scheduled passive effect after the render that scheduled it
FairSpec == Spec /\ WF_vars(DraftEffect)

(***************************************************************************)
(* The calls of lib/reading.js on their own.                               *)
(***************************************************************************)
ReadingInit ==
  /\ \/ \E s \in Strings, o \in OtherValues :
          \/ text = Str(s) /\ yomi = o
          \/ text = o /\ yomi = Str(s)
     \/ text \in OtherValues /\ yomi \in OtherValues
  /\ called = "nothing"
  /\ ret = NoResult
  /\ PageFresh
  /\ storage = [draft |-> AbsentDraft, entries |-> AbsentEntries]

\* normalizeReading(text)
CallNormalizeReading ==
  /\ called = "nothing"
  /\ called' = "normalizeReading"
  /\ ret' = normalizeReadingCall(text)
  /\ UNCHANGED <<text, yomi>>
  /\ UNCHANGED pageVars

\* normalizeReading applied to what normalizeReading returned
CallNormalizeReadingAgain ==
  /\ called = "normalizeReading"
  /\ ret.kind = "return"
  /\ called' = "normalizeReadingAgain"
  /\ ret' = normalizeReadingCall(ret.value)
  /\ UNCHANGED <<text, yomi>>
  /\ UNCHANGED pageVars

\* countReadingChars(text, yomi)
CallCountReadingChars ==
  /\ called = "nothing"
  /\ called' = "countReadingChars"
  /\ ret' = countReadingChars(text, yomi)
  /\ UNCHANGED <<text, yomi>>
  /\ UNCHANGED pageVars

ReadingNext ==
  \/ CallNormalizeReading
  \/ CallNormalizeReadingAgain
  \/ CallCountReadingChars

SpecReading == ReadingInit /\ [][ReadingNext]_vars

(***************************************************************************)
(* Notions the properties are stated with, defined apart from the code.    *)
(***************************************************************************)
\* a string with a code unit that is no whitespace: its trimmed length is not 0
NonBlank(value) ==
  IsString(value) /\ \E i \in 1..Len(value.units) : ~IsWhiteSpace(value.units[i])

\* countReadingChars has returned (not thrown)
Counted == called = "countReadingChars" /\ ret.kind = "return"

\* the code units of the argument the rule of the specification selects
SelectedUnits ==
  IF NonBlank(yomi) THEN yomi.units
  ELSE IF IsString(text) THEN text.units ELSE <<>>

\* places where a high surrogate is followed by a low surrogate
SurrogatePairs(units) ==
  {i \in 1..(Len(units) - 1) : IsHighSurrogate(units[i]) /\ IsLowSurrogate(units[i + 1])}

IsSurrogate(c) == IsHighSurrogate(c) \/ IsLowSurrogate(c)

\* how many code units of the string are in the class
Occurrences(units, class) == Cardinality({i \in 1..Len(units) : units[i] \in class})

\* the hiragana counterpart of the katakana of the alphabet, as a table
KanaCounterpart(c) ==
  CASE c = 12461 -> 12365
    [] c = 12515 -> 12419
    [] c = 12519 -> 12423
    [] c = 12449 -> 12353
    [] c = 12534 -> 12438
    [] OTHER -> c

KatakanaOfAlphabet == {12461, 12515, 12519, 12449, 12534}

HiraganaSpelling(units) == [i \in 1..Len(units) |-> KanaCounterpart(units[i])]

AllKatakana(value) ==
  /\ IsString(value)
  /\ Len(value.units) > 0
  /\ \A i \in 1..Len(value.units) : value.units[i] \in KatakanaOfAlphabet

\* units with c put in after the first i code units
InsertAt(units, i, c) == SubSeq(units, 1, i) \o <<c>> \o SubSeq(units, i + 1, Len(units))

\* the removable characters tried as insertions: whitespace and punctuation
Removable == {32, 12288, 12289, 46, 12539}

\* small ya, yu, yo of both scripts
SmallYaYuYo == {12419, 12421, 12423, 12515, 12517, 12519}

\* the other small kana: small vowels, tsu, wa, ka, ke in hiragana
OtherSmallHiragana == {12353, 12355, 12357, 12359, 12361, 12387, 12430, 12437, 12438}

OtherSmallKatakana == {c + 96 : c \in OtherSmallHiragana}

\* C1: normalizeReading is idempotent: applied to its own result it returns
\* that result unchanged.
C1_Idempotent ==
  called = "normalizeReadingAgain" =>
    ret = Return(Str(normalizeReading(text.units)))

\* a two-unit string that normalisation shortened, normalised twice
C1_Witness ==
  /\ called = "normalizeReadingAgain"
  /\ Len(text.units) = 2
  /\ ret.kind = "return"
  /\ Len(ret.value.units) = 1

\* C2: the result's source is "yomi" exactly when yomi is a string whose
\* trimmed length is not zero, and "text" in every other case.
C2_SourceRule ==
  Counted =>
    /\ ret.value.source \in {"yomi", "text"}
    /\ ret.value.source = "yomi" <=> NonBlank(yomi)

\* a reading of one full-width space falls back to a non-empty text
C2_Witness ==
  /\ Counted
  /\ yomi = Str(<<12288>>)
  /\ IsString(text) /\ Len(text.units) = 2
  /\ ret.value.source = "text"

\* C3: with a non-blank yomi the result is computed from yomi alone (the same
\* for every text); with a blank yomi it depends on the text alone.
C3_ReadingPrecedence ==
  called = "countReadingChars" =>
    /\ NonBlank(yomi) =>
         /\ ret.kind = "return"
         /\ ret.value.normalized = Str(normalizeReading(yomi.units))
         /\ \A t2 \in OtherValues : countReadingChars(t2, yomi) = ret
    /\ ~NonBlank(yomi) =>
         \A y2 \in {y \in OtherValues : ~NonBlank(y)} : countReadingChars(text, y2) = ret

\* a reading of two characters counted next to a text that itself counts one
C3_Witness ==
  /\ Counted
  /\ text = Str(<<28450>>)
  /\ NonBlank(yomi)
  /\ ret.value.count = 2

\* C4: count is the number of code points of normalized (code units less the
\* surrogate pairs), never negative; surrogates pass through untouched and a
\* pair counts as one.
C4_CountsCodePoints ==
  Counted =>
    LET n == ret.value.normalized.units
    IN /\ ret.value.count = Len(n) - Cardinality(SurrogatePairs(n))
       /\ ret.value.count >= 0
       /\ SelectSeq(n, IsSurrogate) = SelectSeq(SelectedUnits, IsSurrogate)
       /\ Cardinality(SurrogatePairs(n)) >= Cardinality(SurrogatePairs(SelectedUnits))

\* one character outside the BMP, counted as one
C4_Witness ==
  /\ Counted
  /\ yomi = Str(<<55357, 56832>>)
  /\ ret.value.normalized = yomi
  /\ ret.value.count = 1

\* C5: a katakana string and its hiragana spelling normalise to the same
\* string and are counted the same.
C5_KatakanaEquivalence ==
  /\ (called = "normalizeReading" /\ AllKatakana(text)) =>
        ret = normalizeReadingCall(Str(HiraganaSpelling(text.units)))
  /\ (called = "countReadingChars" /\ AllKatakana(yomi)) =>
        /\ ret = countReadingChars(text, Str(HiraganaSpelling(yomi.units)))
        /\ ret.value.normalized.units = normalizeReading(HiraganaSpelling(yomi.units))

\* katakana ki followed by katakana small ke, counted two
C5_Witness ==
  /\ Counted
  /\ yomi = Str(<<12461, 12534>>)
  /\ ret.value.count = 2

\* C6: the normalised string holds no whitespace and no character of the
\* punctuation set, and putting such a character anywhere into the selected
\* source string leaves the count as it is.
C6_NoPunctuation ==
  /\ (called \in {"normalizeReading", "countReadingChars"} /\ ret.kind = "return") =>
       LET n == IF called = "normalizeReading" THEN ret.value.units
                ELSE ret.value.normalized.units
       IN \A i \in 1..Len(n) : ~IsWhiteSpace(n[i]) /\ n[i] \notin PunctuationClass
  /\ Counted =>
       \A i \in 0..Len(SelectedUnits), c \in Removable :
         LET more == Str(InsertAt(SelectedUnits, i, c))
             again == IF NonBlank(yomi) THEN countReadingChars(text, more)
                      ELSE countReadingChars(more, yomi)
         IN again.kind = "return" /\ again.value.count = ret.value.count

\* a text of one kana and one comma, counted one
C6_Witness ==
  /\ Counted
  /\ text = Str(<<12365, 12289>>)
  /\ yomi = Str(<<>>)
  /\ ret.value.count = 1

\* C7: the normalised string never holds small ya, yu or yo of either script
\* (ki + small ya gives ki alone), and every other small kana of the source is
\* still there, each counted as one character.
C7_SmallKana ==
  /\ (called = "normalizeReading" /\ ret.kind = "return") =>
       /\ Occurrences(ret.value.units, SmallYaYuYo) = 0
       /\ Occurrences(ret.value.units, OtherSmallHiragana)
            = Occurrences(text.units, OtherSmallHiragana \cup OtherSmallKatakana)
       /\ text.units \in {<<12365, 12419>>, <<12461, 12515>>} => ret.value.units = <<12365>>
  /\ Counted =>
       /\ Occurrences(ret.value.normalized.units, SmallYaYuYo) = 0
       /\ Occurrences(ret.value.normalized.units, OtherSmallHiragana)
            = Occurrences(SelectedUnits, OtherSmallHiragana \cup OtherSmallKatakana)
       /\ ret.value.count >= Occurrences(SelectedUnits, OtherSmallHiragana \cup OtherSmallKatakana)
       /\ SelectedUnits \in {<<12365, 12419>>, <<12461, 12515>>} =>
            ret.value.normalized.units = <<12365>> /\ ret.value.count = 1

\* katakana ki + small ya as the reading, counted one
C7_Witness ==
  /\ Counted
  /\ yomi = Str(<<12461, 12515>>)
  /\ ret.value.normalized = Str(<<12365>>)
  /\ ret.value.count = 1

\* C8: for text and yomi each a string, null or undefined, countReadingChars
\* returns a well-formed result; a null or undefined selected source gives
\* count 0 and normalized "".
C8_Total ==
  (/\ called = "countReadingChars"
   /\ IsString(text) \/ IsNullish(text)
   /\ IsString(yomi) \/ IsNullish(yomi)) =>
    /\ ret.kind = "return"
    /\ ret.value.count \in Nat
    /\ IsString(ret.value.normalized)
    /\ ret.value.source \in {"yomi", "text"}
    /\ (~NonBlank(yomi) /\ IsNullish(text)) =>
         ret.value.count = 0 /\ ret.value.normalized = Str(<<>>)

\* text null and yomi undefined: count 0
C8_Witness ==
  /\ Counted
  /\ text = Null
  /\ yomi = Undefined
  /\ ret.value.count = 0
  /\ ret.value.normalized = Str(<<>>)

\* C9: neither operation ever raises an exception, whatever value it is given.
C9_NoException == ret.kind # "throw"

\* C10: one haiku per day: the list of entries never holds two entries of the
\* same dateKey, whatever is saved, cleared or imported.
C10_OnePerDay ==
  \A i, j \in 1..Len(entries) :
    i # j => entries[i].dateKey # entries[j].dateKey

\* the fold as the claim words it: U+30A1..U+30F6 down by 0x60, the rest as is
FoldedUnit(c) == IF 12449 <= c /\ c <= 12534 THEN c - 96 ELSE c

\* C11: the katakana fold moves exactly the code points U+30A1..U+30F6 down by
\* 0x60 and leaves every other code point as it is: the neighbours U+30A0 and
\* U+30F7, the long vowel mark U+30FC and half-width katakana come out of
\* normalizeReading unchanged.
C11_FoldRange ==
  (called = "normalizeReading" /\ IsString(text)) =>
    /\ Len(toHiragana(text.units)) = Len(text.units)
    /\ \A i \in 1..Len(text.units) :
         toHiragana(text.units)[i] = FoldedUnit(text.units[i])
    /\ \A c \in {12448, 12535, 12540, 65398} :
         text.units = <<c>> => ret = Return(Str(<<c>>))
    /\ text.units = <<12449>> => ret = Return(Str(<<12353>>))
    /\ text.units = <<12534>> => ret = Return(Str(<<12438>>))

\* U+30F6 next to U+30F7: the first folded to U+3096, the second kept
C11_Witness ==
  /\ called = "normalizeReading"
  /\ text = Str(<<12534, 12535>>)
  /\ ret = Return(Str(<<12438, 12535>>))

\* the characters the claim lets normalizeReading delete
Deleted(c) == IsWhiteSpace(c) \/ c \in PunctuationClass \/ c \in SmallYaYuYo

\* the source string with every character folded and the deleted ones left out
Retained(units) ==
  SelectSeq([i \in 1..Len(units) |-> FoldedUnit(units[i])], LAMBDA c : ~Deleted(c))

\* C12: normalizeReading deletes whitespace, the enumerated punctuation and the
\* six small ya/yu/yo glyphs and nothing else: every other character of the
\* selected source (letters, kanji, other kana, the long vowel mark, '-') is in
\* the output, folded, and is counted.
C12_Retention ==
  /\ (called = "normalizeReading" /\ IsString(text)) =>
       ret = Return(Str(Retained(text.units)))
  /\ Counted =>
       /\ ret.value.normalized.units = Retained(SelectedUnits)
       /\ ret.value.count =
            Len(Retained(SelectedUnits)) - Cardinality(SurrogatePairs(Retained(SelectedUnits)))
       /\ \A i \in 1..Len(SelectedUnits) :
            ~Deleted(SelectedUnits[i]) =>
               Occurrences(ret.value.normalized.units, {FoldedUnit(SelectedUnits[i])}) >= 1

\* the text "a-" with an empty reading, counted two
C12_Witness ==
  /\ Counted
  /\ text = Str(<<97, 45>>)
  /\ yomi = Str(<<>>)
  /\ ret.value.source = "text"
  /\ ret.value.count = 2

\* what the three stages give when applied in each of the five other orders
OtherOrders(units) ==
  { stripPunctuation(stripSmallKana(toHiragana(units))),
    stripSmallKana(toHiragana(stripPunctuation(units))),
    toHiragana(stripSmallKana(stripPunctuation(units))),
    stripPunctuation(toHiragana(stripSmallKana(units))),
    toHiragana(stripPunctuation(stripSmallKana(units))) }

\* C13 as claimed: the order of the stages matters, that is, some input gets
\* another result when the stages are applied in another order.
C13_OrderMatters ==
  \E s \in Strings \cup {text.units} : OtherOrders(s) # {normalizeReading(s)}

\* C13 as amended: the stages run fold, punctuation strip, small-kana strip,
\* and every other order of the three gives the same result.
C13_OrderIrrelevant ==
  (called = "normalizeReading" /\ IsString(text)) =>
    /\ ret = Return(Str(stripSmallKana(stripPunctuation(toHiragana(text.units)))))
    /\ OtherOrders(text.units) = {ret.value.units}

\* katakana ki + katakana small ya: elided in whatever order the stages run
C13_Witness ==
  /\ called = "normalizeReading"
  /\ text = Str(<<12461, 12515>>)
  /\ ret = Return(Str(<<12365>>))
  /\ toHiragana(stripPunctuation(stripSmallKana(text.units))) = <<12365>>

\* a is b with some of its elements left out (greedy matching from the left)
RECURSIVE IsSubseq(_, _)
IsSubseq(a, b) ==
  IF a = <<>> THEN TRUE
  ELSE IF b = <<>> THEN FALSE
  ELSE IF Head(a) = Head(b) THEN IsSubseq(Tail(a), Tail(b))
  ELSE IsSubseq(a, Tail(b))

Folded(units) == [i \in 1..Len(units) |-> FoldedUnit(units[i])]

CodePoints(units) == Len(units) - Cardinality(SurrogatePairs(units))

\* C14: the output of normalizeReading is a subsequence of the katakana-folded
\* input (retained characters in their order, nothing inserted or duplicated),
\* and count never exceeds the number of code points of the selected source.
C14_OrderPreserved ==
  /\ (called = "normalizeReading" /\ IsString(text)) =>
       /\ ret.kind = "return"
       /\ IsSubseq(ret.value.units, Folded(text.units))
  /\ Counted =>
       /\ IsSubseq(ret.value.normalized.units, Folded(SelectedUnits))
       /\ ret.value.count <= CodePoints(SelectedUnits)

\* two kept characters, the second one folded, in the order of the source
C14_Witness ==
  /\ Counted
  /\ yomi = Str(<<97, 12461>>)
  /\ ret.value.normalized = Str(<<97, 12365>>)
  /\ ret.value.count = 2

\* C15 as claimed, in its finite form: once the draft effect has run after
\* the load, the persisted draft equals the draft in memory.
C15_PersistedEqualsDraft == Ready => loadDraft(storage) = draft

\* what a step does to the persisted draft (C15 as amended)
DraftStep ==
  /\ ~hasLoaded => storage'.draft = storage.draft
  /\ (~hasLoaded /\ hasLoaded') => draft' = loadDraft(storage')
  /\ (hasLoaded /\ draft' # draft) => draftEffectPending'
  /\ (hasLoaded /\ draftEffectPending /\ ~draftEffectPending') =>
       \/ loadDraft(storage') = draft'
       \/ storage' = storage /\ feedback' = Feedback("error", "draft not saved")

\* C15 as amended: the persisted draft is not written before the load has
\* completed, so that the loaded draft is the stored one; after the load every
\* change of the draft schedules a write, the write eventually runs, and it
\* leaves the persisted draft equal to the draft in memory unless the storage
\* refuses it, in which case the persisted draft is unchanged and an error is
\* reported.
C15_DraftAutosave ==
  /\ [][DraftStep]_vars
  /\ (hasLoaded /\ draftEffectPending) ~> Ready

\* the stored first line survived the mount, a second line was typed and the
\* write has run
C15_Witness ==
  /\ Ready
  /\ draft.kami5 = Str(<<12354>>)
  /\ draft.naka7 = Str(<<12354>>)
  /\ storage.draft = Stored(draft)

\* C16: once the page has loaded, after every 'save today' or 'import' the
\* entries in memory equal the entries persisted under the storage key, also
\* when the storage write fails.
C16_EntriesPersisted == hasLoaded => entries = loadEntries(storage)

EntryFields == {"dateKey", "kami5", "naka7", "shimo5", "createdAt", "updatedAt"}

\* yyyy-mm-dd: ten code units, hyphens at 5 and 8, digits elsewhere
HasDateKeyShape(units) ==
  /\ Len(units) = 10
  /\ \A i \in 1..10 : IF i \in {5, 8} THEN units[i] = 45 ELSE IsDigit(units[i])

\* a file the import accepts: small enough, JSON, an object with an entries
\* array in which every element is an object with six string fields, a
\* dateKey of the right shape and two timestamps Date.parse reads
FullyValid(file) ==
  /\ file.size <= MaxImportBytes
  /\ file.parses
  /\ file.payload.kind = "object"
  /\ file.payload.entries.kind = "array"
  /\ \A i \in 1..Len(file.payload.entries.items) :
       LET item == file.payload.entries.items[i]
       IN /\ item.kind = "object"
          /\ \A f \in EntryFields : IsString(item[f])
          /\ HasDateKeyShape(item.dateKey.units)
          /\ ~DateParseIsNaN(item.createdAt)
          /\ ~DateParseIsNaN(item.updatedAt)

\* the entries of a file, element by element
FileEntries(file) ==
  [i \in 1..Len(file.payload.entries.items) |->
     [f \in EntryFields |-> file.payload.entries.items[i][f]]]

ImportChanges ==
  \/ entries' # entries
  \/ storage' # storage
  \/ selectedDateKey' # selectedDateKey

\* C17: an import that changes the entries in memory, the persisted entries
\* or the selected date is the import of a fully valid file, whose entries
\* replace the list wholesale; a file that is too large, declined, no JSON or
\* refused by validateImport for any single entry leaves all three unchanged.
C17_ImportAllOrNothing ==
  [][(HandleImport /\ ImportChanges) =>
       \E file \in ImportFiles :
         /\ FullyValid(file)
         /\ entries' = FileEntries(file)
         /\ \/ /\ storage' = [storage EXCEPT !.entries = Stored(FileEntries(file))]
               /\ selectedDateKey' = IF FileEntries(file) = <<>> THEN NoDate
                                     ELSE FileEntries(file)[1].dateKey
            \/ /\ storage' = storage
               /\ selectedDateKey' = selectedDateKey]_vars

\* the backup of two days has replaced the list, in memory and in the storage
C17_Witness ==
  /\ Len(entries) = 2
  /\ entries[1].dateKey = getTokyoDateKey(2)
  /\ entries[2].dateKey = getTokyoDateKey(1)
  /\ storage.entries = Stored(entries)
  /\ selectedDateKey = getTokyoDateKey(2)
  /\ feedback = Feedback("success", "imported")

====
